---------------------------- MODULE Spec2Model ----------------------------
(***************************************************************************)
(* A model of next-hexagon: a ball bouncing inside a rotating hexagon.     *)
(*                                                                         *)
(*   src/lib/physics.ts               vector algebra, gravity, drag,       *)
(*                                    bounce, minimum speed                *)
(*   src/unnamed/part_000             hexagon geometry, circle/segment     *)
(*                                    collision ("@/lib/geometry")         *)
(*   src/components/HexagonBounce.tsx the React component: refs, state,    *)
(*                                    the animation loop, the handlers     *)
(*                                                                         *)
(* NUMBERS.  A JavaScript number is modelled as an exact element of the    *)
(* field Q(sqrt 3): the triple <<a, b, c>> stands for (a + b*sqrt(3)) / c, *)
(* with c > 0 and gcd(a, b, c) = 1, so that two numbers are equal exactly  *)
(* when their triples are.  The field holds every coordinate of a regular  *)
(* hexagon whose orientation is a multiple of 30 degrees.  IEEE rounding   *)
(* is not modelled.  Math.sqrt is exact where the root lies in the field   *)
(* and undefined elsewhere (TLC stops there), Math.cos and Math.sin are    *)
(* exact on the 30 degree lattice and take the nearest lattice angle       *)
(* elsewhere.                                                              *)
(***************************************************************************)
EXTENDS Integers, Sequences, FiniteSets, TLC

(***************************************************************************)
(* Integers                                                                *)
(***************************************************************************)
IAbs(n) == IF n < 0 THEN -n ELSE n

ISign(n) == IF n < 0 THEN -1 ELSE IF n > 0 THEN 1 ELSE 0

RECURSIVE Gcd(_, _)
Gcd(m, n) == IF n = 0 THEN m ELSE Gcd(n, m % n)

\* The sign of p - q*sqrt(3), for p > 0 and q > 0, without squaring large
\* numbers: 1 < sqrt(3) < 2 decides the far cases, small numbers are squared,
\* and otherwise p - q*sqrt(3) has the sign of -((2q - r) - r*sqrt(3)) with
\* r = p - q.
RECURSIVE CmpSqrt3(_, _)
CmpSqrt3(p, q) ==
    IF p >= 2 * q THEN 1
    ELSE IF p <= q THEN -1
    ELSE IF q < 20000 THEN ISign(p * p - 3 * q * q)
    ELSE -CmpSqrt3(2 * q - (p - q), p - q)

(***************************************************************************)
(* Numbers: (a + b*sqrt(3)) / c                                            *)
(***************************************************************************)
QOver(a, b, c, s) == <<a \div s, b \div s, c \div s>>

\* The canonical triple of (a + b*sqrt(3)) / c, for c # 0.
Q(a, b, c) == QOver(a, b, c, ISign(c) * Gcd(Gcd(IAbs(a), IAbs(b)), IAbs(c)))

R(n) == <<n, 0, 1>>

Frac(n, d) == Q(n, 0, d)

Zero == R(0)

One == R(1)

Sqrt3 == <<0, 1, 1>>

NNeg(x) == <<-x[1], -x[2], x[3]>>

NAddOver(x, y, g) ==
    Q(x[1] * (y[3] \div g) + y[1] * (x[3] \div g),
      x[2] * (y[3] \div g) + y[2] * (x[3] \div g),
      x[3] * (y[3] \div g))

NAdd(x, y) == NAddOver(x, y, Gcd(x[3], y[3]))

NSub(x, y) == NAdd(x, NNeg(y))

NMulParts(a1, b1, c1, a2, b2, c2) ==
    Q(a1 * a2 + 3 * b1 * b2, a1 * b2 + b1 * a2, c1 * c2)

NMulBy(x, y, h1, h2) ==
    NMulParts(x[1] \div h1, x[2] \div h1, x[3] \div h2,
              y[1] \div h2, y[2] \div h2, y[3] \div h1)

\* The greatest common divisor of a numerator a + b*sqrt(3) and a
\* denominator c > 0.
NumGcd(a, b, c) == Gcd(Gcd(IAbs(a), IAbs(b)), c)

\* The product, with the common factors of a numerator and the other
\* factor's denominator taken out before multiplying.
NMul(x, y) ==
    NMulBy(x, y, NumGcd(x[1], x[2], y[3]), NumGcd(y[1], y[2], x[3]))

NInvBy(x, g) ==
    Q(x[3] * (x[1] \div g), -(x[3] * (x[2] \div g)),
      g * ((x[1] \div g) * (x[1] \div g) - 3 * (x[2] \div g) * (x[2] \div g)))

\* 1/x for x # 0: the conjugate over the norm a*a - 3*b*b.
NInv(x) ==
    IF x[2] = 0 THEN Q(x[3], 0, x[1])
    ELSE IF x[1] = 0 THEN Q(0, x[3], 3 * x[2])
    ELSE NInvBy(x, Gcd(IAbs(x[1]), IAbs(x[2])))

\* x/y for y # 0; the quotients 0, 1 and -1 are found without the norm of y.
NDiv(x, y) ==
    IF x[1] = 0 /\ x[2] = 0 THEN x
    ELSE IF x = y THEN <<1, 0, 1>>
    ELSE IF x = NNeg(y) THEN <<-1, 0, 1>>
    ELSE NMul(x, NInv(y))

NSign(x) ==
    IF x[2] = 0 THEN ISign(x[1])
    ELSE IF x[1] = 0 THEN ISign(x[2])
    ELSE IF (x[1] > 0) = (x[2] > 0) THEN ISign(x[1])
    ELSE ISign(x[1]) * CmpSqrt3(IAbs(x[1]), IAbs(x[2]))

NLt(x, y) == NSign(NSub(x, y)) < 0

NLe(x, y) == NSign(NSub(x, y)) <= 0

NGt(x, y) == NLt(y, x)

NGe(x, y) == NLe(y, x)

NAbs(x) == IF NSign(x) < 0 THEN NNeg(x) ELSE x

NMin(x, y) == IF NLt(y, x) THEN y ELSE x

NMax(x, y) == IF NGt(y, x) THEN y ELSE x

NSq(x) == NMul(x, x)

(***************************************************************************)
(* Math.sqrt(u*u + v*v).  The root is kept as the pair it is taken of:     *)
(* comparisons are decided on the squares, and the value is taken only     *)
(* where the code uses it as a number.  The value lies in the field when   *)
(* the pair is axis-parallel or has one of the slopes below.               *)
(***************************************************************************)
MathSqrtSumSq(u, v) == [u |-> u, v |-> v]

\* <<|v/u|, sqrt(1 + (v/u)^2)>>: the 30 and 60 degree directions and the
\* 3-4-5 directions.
SlopeTable ==
    { <<Sqrt3, R(2)>>, <<Q(0, 1, 3), Q(0, 2, 3)>>,
      <<Frac(3, 4), Frac(5, 4)>>, <<Frac(4, 3), Frac(5, 3)>> }

SlopeOf(root) == NAbs(NDiv(root.v, root.u))

SlopeEntry(slope) == CHOOSE p \in SlopeTable : p[1] = slope

RootDefined(root) ==
    \/ root.u = Zero
    \/ root.v = Zero
    \/ \E p \in SlopeTable : p[1] = SlopeOf(root)

RootValue(root) ==
    IF root.v = Zero THEN NAbs(root.u)
    ELSE IF root.u = Zero THEN NAbs(root.v)
    ELSE NMul(NAbs(root.u), SlopeEntry(SlopeOf(root))[2])

RootSq(root) == NAdd(NSq(root.u), NSq(root.v))

\* root >= x.  A root is at least the absolute value of either component,
\* and equal to it when the other one is 0, which decides the far and the
\* axis-parallel cases without squaring.
RootGe(root, x) ==
    \/ NSign(x) <= 0
    \/ NGe(NAbs(root.u), x)
    \/ NGe(NAbs(root.v), x)
    \/ root.u # Zero /\ root.v # Zero /\ NGe(RootSq(root), NSq(x))

RootLt(root, x) == ~RootGe(root, x)

RootIsZero(root) == root.u = Zero /\ root.v = Zero

(***************************************************************************)
(* Math.cos and Math.sin.  An angle is q + k*(Math.PI/3) with q a rational *)
(* number of radians: <<q, k>>.  LatticeIndex(q) is q in units of 30       *)
(* degrees, rounded to the nearest unit (pi taken as 355/113).             *)
(***************************************************************************)
LatticeIndex(q) == (1356 * q[1] + 355 * q[3]) \div (710 * q[3])

CosTable ==
    <<R(1), Q(0, 1, 2), Frac(1, 2), R(0), Frac(-1, 2), Q(0, -1, 2),
      R(-1), Q(0, -1, 2), Frac(-1, 2), R(0), Frac(1, 2), Q(0, 1, 2)>>

MathCos(angle) == CosTable[((LatticeIndex(angle[1]) + 2 * angle[2]) % 12) + 1]

MathSin(angle) == CosTable[((LatticeIndex(angle[1]) + 2 * angle[2] + 9) % 12) + 1]

(***************************************************************************)
(* src/lib/physics.ts                                                      *)
(***************************************************************************)
Vec(x, y) == [x |-> x, y |-> y]

dotProduct(v1, v2) == NAdd(NMul(v1.x, v2.x), NMul(v1.y, v2.y))

vectorLength(v) == MathSqrtSumSq(v.x, v.y)

\* ball.velocity.x *= factor; ball.velocity.y *= factor
scaleVelocity(ball, factor) ==
    [ball EXCEPT !.velocity.x = NMul(@, factor),
                 !.velocity.y = NMul(@, factor)]

applyGravity(ball, gravity, deltaTime) ==
    [ball EXCEPT !.velocity.y = NAdd(@, NMul(gravity, deltaTime))]

applyAirFriction(ball, airFriction, deltaTime) ==
    scaleVelocity(ball, NSub(One, NMul(airFriction, deltaTime)))

updateBallPosition(ball, deltaTime) ==
    [ball EXCEPT !.position.x = NAdd(@, NMul(ball.velocity.x, deltaTime)),
                 !.position.y = NAdd(@, NMul(ball.velocity.y, deltaTime))]

\* A bounce that never returns early.
bounceAlways(velocity, normal, wallVelocity, bounceDamping, normalSpeed) ==
    Vec(NAdd(NSub(velocity.x,
                  NMul(NMul(NMul(R(2), normalSpeed), normal.x), bounceDamping)),
             NMul(wallVelocity.x, NSub(One, bounceDamping))),
        NAdd(NSub(velocity.y,
                  NMul(NMul(NMul(R(2), normalSpeed), normal.y), bounceDamping)),
             NMul(wallVelocity.y, NSub(One, bounceDamping))))

\* A bounce that takes the normal speed off once instead of twice.
bounceOnce(velocity, normal, wallVelocity, bounceDamping, normalSpeed) ==
    IF NSign(normalSpeed) > 0
    THEN velocity
    ELSE Vec(NAdd(NSub(velocity.x,
                       NMul(NMul(normalSpeed, normal.x), bounceDamping)),
                  NMul(wallVelocity.x, NSub(One, bounceDamping))),
             NAdd(NSub(velocity.y,
                       NMul(NMul(normalSpeed, normal.y), bounceDamping)),
                  NMul(wallVelocity.y, NSub(One, bounceDamping))))

\* A bounce that leaves bounceDamping out of the reflection.
bounceUndamped(velocity, normal, wallVelocity, bounceDamping, normalSpeed) ==
    IF NSign(normalSpeed) > 0
    THEN velocity
    ELSE Vec(NAdd(NSub(velocity.x, NMul(NMul(R(2), normalSpeed), normal.x)),
                  NMul(wallVelocity.x, NSub(One, bounceDamping))),
             NAdd(NSub(velocity.y, NMul(NMul(R(2), normalSpeed), normal.y)),
                  NMul(wallVelocity.y, NSub(One, bounceDamping))))

\* calculateBounceVelocity from the test of normalSpeed on.
bounceVelocityAt(velocity, normal, wallVelocity, bounceDamping, normalSpeed) ==
    IF NSign(normalSpeed) > 0
    THEN velocity
    ELSE Vec(NAdd(NSub(velocity.x,
                       NMul(NMul(NMul(R(2), normalSpeed), normal.x),
                            bounceDamping)),
                  NMul(wallVelocity.x, NSub(One, bounceDamping))),
             NAdd(NSub(velocity.y,
                       NMul(NMul(NMul(R(2), normalSpeed), normal.y),
                            bounceDamping)),
                  NMul(wallVelocity.y, NSub(One, bounceDamping))))

calculateBounceVelocity(velocity, normal, wallVelocity, bounceDamping) ==
    LET relativeVelocity == Vec(NSub(velocity.x, wallVelocity.x),
                                NSub(velocity.y, wallVelocity.y))
    IN  bounceVelocityAt(velocity, normal, wallVelocity, bounceDamping,
                         dotProduct(relativeVelocity, normal))

\* A floor that never raises the speed.
clampNever(ball, minVelocity) == ball

clampMinVelocity(ball, minVelocity) ==
    LET speed == vectorLength(ball.velocity)
    IN  IF RootLt(speed, minVelocity) /\ ~RootIsZero(speed)
        THEN scaleVelocity(ball, NDiv(minVelocity, RootValue(speed)))
        ELSE ball

(***************************************************************************)
(* src/unnamed/part_000 (the module "@/lib/geometry")                      *)
(***************************************************************************)
\* Vertices with Math.sin and Math.cos exchanged.
getHexagonVerticesMirrored(hexagon) ==
    [i \in 0..5 |->
        Vec(NAdd(hexagon.center.x,
                 NMul(hexagon.radius, MathSin(<<hexagon.rotation, i>>))),
            NAdd(hexagon.center.y,
                 NMul(hexagon.radius, MathCos(<<hexagon.rotation, i>>))))]

getHexagonVertices(hexagon) ==
    [i \in 0..5 |->
        Vec(NAdd(hexagon.center.x,
                 NMul(hexagon.radius, MathCos(<<hexagon.rotation, i>>))),
            NAdd(hexagon.center.y,
                 NMul(hexagon.radius, MathSin(<<hexagon.rotation, i>>))))]

\* Edges that run from each vertex to the next but one.
edgesSkipping(vertices) ==
    [i \in 0..5 |-> [start |-> vertices[i], end |-> vertices[(i + 2) % 6]]]

\* The loop of getHexagonEdges over the vertices.
edgesOf(vertices) ==
    [i \in 0..5 |-> [start |-> vertices[i], end |-> vertices[(i + 1) % 6]]]

getHexagonEdges(hexagon) == edgesOf(getHexagonVertices(hexagon))

\* pointToSegmentDistance from closestPoint on.
distanceTo(point, closestPoint) ==
    [distance |-> MathSqrtSumSq(NSub(point.x, closestPoint.x),
                                NSub(point.y, closestPoint.y)),
     closestPoint |-> closestPoint]

\* A projection parameter that is not limited to [0, 1].
segmentParameterFree(pointVector, segmentVector, segmentLengthSquared) ==
    IF segmentLengthSquared # Zero
    THEN NDiv(dotProduct(pointVector, segmentVector), segmentLengthSquared)
    ELSE Zero

\* The projection parameter t, limited to [0, 1].
segmentParameter(pointVector, segmentVector, segmentLengthSquared) ==
    IF segmentLengthSquared # Zero
    THEN NMax(Zero, NMin(One, NDiv(dotProduct(pointVector, segmentVector),
                                   segmentLengthSquared)))
    ELSE Zero

\* pointToSegmentDistance from t on.
closestPointAt(point, start, segmentVector, t) ==
    distanceTo(point, Vec(NAdd(start.x, NMul(t, segmentVector.x)),
                          NAdd(start.y, NMul(t, segmentVector.y))))

\* pointToSegmentDistance from pointVector on.
projectOnSegment(point, start, segmentVector) ==
    closestPointAt(point, start, segmentVector,
        segmentParameter(Vec(NSub(point.x, start.x), NSub(point.y, start.y)),
                         segmentVector,
                         NAdd(NSq(segmentVector.x), NSq(segmentVector.y))))

pointToSegmentDistance(point, segment) ==
    projectOnSegment(point, segment.start,
                     Vec(NSub(segment.end.x, segment.start.x),
                         NSub(segment.end.y, segment.start.y)))

\* normal.x /= normalLength; normal.y /= normalLength
divideVector(normal, normalLength) ==
    Vec(NDiv(normal.x, normalLength), NDiv(normal.y, normalLength))

\* A normal that is never normalised.
contactNormalRaw(normal) == normal

\* The normal of circleSegmentCollision: normalised when its length is > 0.
contactNormal(normal) ==
    LET normalLength == MathSqrtSumSq(normal.x, normal.y)
    IN  IF ~RootIsZero(normalLength)
        THEN divideVector(normal, RootValue(normalLength))
        ELSE normal

\* A collision test that lets the distance radius collide.
collisionAtInclusive(center, radius, distance, closestPoint) ==
    IF RootGe(distance, radius) /\ RootSq(distance) # NSq(radius)
    THEN [collided |-> FALSE]
    ELSE [collided |-> TRUE,
          normal |-> contactNormal(Vec(NSub(center.x, closestPoint.x),
                                       NSub(center.y, closestPoint.y))),
          depth |-> NSub(radius, RootValue(distance)),
          contactPoint |-> closestPoint]

\* circleSegmentCollision from the test of distance on.
collisionAt(center, radius, distance, closestPoint) ==
    IF RootGe(distance, radius)
    THEN [collided |-> FALSE]
    ELSE [collided |-> TRUE,
          normal |-> contactNormal(Vec(NSub(center.x, closestPoint.x),
                                       NSub(center.y, closestPoint.y))),
          depth |-> NSub(radius, RootValue(distance)),
          contactPoint |-> closestPoint]

\* circleSegmentCollision with the result of pointToSegmentDistance.
collisionOf(center, radius, nearest) ==
    collisionAt(center, radius, nearest.distance, nearest.closestPoint)

circleSegmentCollision(center, radius, segment) ==
    collisionOf(center, radius, pointToSegmentDistance(center, segment))

getWallVelocity(point, hexagon, angularVelocity) ==
    Vec(NMul(NNeg(NSub(point.y, hexagon.center.y)), angularVelocity),
        NMul(NSub(point.x, hexagon.center.x), angularVelocity))

crossProduct(v1, v2, point) ==
    NSub(NMul(NSub(v2.x, v1.x), NSub(point.y, v1.y)),
         NMul(NSub(v2.y, v1.y), NSub(point.x, v1.x)))

\* The loop of isPointInHexagon over the vertices.
insideVertices(point, vertices) ==
    \A i \in 0..5 :
        ~(NSign(crossProduct(vertices[i], vertices[(i + 1) % 6], point)) < 0)

isPointInHexagon(point, hexagon) ==
    insideVertices(point, getHexagonVertices(hexagon))

(***************************************************************************)
(* src/components/HexagonBounce.tsx                                        *)
(***************************************************************************)
VARIABLES
    ballRef,        \* ballRef.current: position, velocity, radius, mass
    hexagonRef,     \* hexagonRef.current: center, radius, rotation
    trailRef,       \* trailRef.current: the recorded positions, oldest first
    lastTimeRef,    \* lastTimeRef.current, in milliseconds
    animationRef,   \* animationRef.current: the handle of the last request
    isPaused,       \* React state
    showTrail,      \* React state
    physicsParams,  \* React state: gravity, airFriction, bounceDamping, minVelocity
    rotationSpeed,  \* React state
    pendingFrames,  \* the browser's pending requestAnimationFrame callbacks
    lastFrame,      \* history: the frame just run, if the last event was one
    steps,          \* history: the number of physics steps executed
    call,           \* a library function applied on its own: name and arguments
    ret             \* its result

vars ==
    <<ballRef, hexagonRef, trailRef, lastTimeRef, animationRef, isPaused,
      showTrail, physicsParams, rotationSpeed, pendingFrames, lastFrame,
      steps, call, ret>>

componentVars ==
    <<ballRef, hexagonRef, trailRef, lastTimeRef, animationRef, isPaused,
      showTrail, physicsParams, rotationSpeed, pendingFrames, lastFrame,
      steps>>

\* The last event was no frame; no function has been called.
NoFrame == [kind |-> "none"]

NoCall == [f |-> "none"]

maxTrailLength == 50

\* The largest deltaTime, in seconds: Math.min(..., 0.033).
MaxDeltaTime == Frac(33, 1000)

InitialBall ==
    [position |-> Vec(R(400), R(200)),
     velocity |-> Vec(R(200), R(0)),
     radius |-> R(10),
     mass |-> R(1)]

InitialHexagon ==
    [center |-> Vec(R(400), R(300)), radius |-> R(200), rotation |-> Zero]

InitialParams ==
    [gravity |-> R(500), airFriction |-> Frac(1, 50),
     bounceDamping |-> Frac(17, 20), minVelocity |-> R(50)]

\* A push-out by half the depth.
pushOutHalf(ball, normal, depth) ==
    [ball EXCEPT !.position.x = NAdd(@, NMul(normal.x, NDiv(depth, R(2)))),
                 !.position.y = NAdd(@, NMul(normal.y, NDiv(depth, R(2))))]

\* A push-out that is left out.
pushOutNever(ball, normal, depth) == ball

\* ball.position.x += normal.x * depth; ball.position.y += normal.y * depth
pushOut(ball, normal, depth) ==
    IF depth # Zero
    THEN [ball EXCEPT !.position.x = NAdd(@, NMul(normal.x, depth)),
                      !.position.y = NAdd(@, NMul(normal.y, depth))]
    ELSE ball

\* The body of the loop over the edges, for the collision of one edge.
collisionResponse(ball, hexagon, angularVelocity, bounceDamping, collision) ==
    IF collision.collided
    THEN pushOut([ball EXCEPT !.velocity =
                     calculateBounceVelocity(
                         ball.velocity, collision.normal,
                         getWallVelocity(collision.contactPoint, hexagon,
                                         angularVelocity),
                         bounceDamping)],
                 collision.normal, collision.depth)
    ELSE ball

edgeResponse(ball, edge, hexagon, angularVelocity, bounceDamping) ==
    collisionResponse(ball, hexagon, angularVelocity, bounceDamping,
        circleSegmentCollision(ball.position, ball.radius, edge))

\* The ball before edge 0, before edge 1, ..., before edge 5 and after it.
RECURSIVE edgeLoop(_, _, _, _, _)
edgeLoop(trace, edges, hexagon, angularVelocity, bounceDamping) ==
    IF Len(trace) = 7
    THEN trace
    ELSE edgeLoop(Append(trace,
                         edgeResponse(trace[Len(trace)], edges[Len(trace) - 1],
                                      hexagon, angularVelocity, bounceDamping)),
                  edges, hexagon, angularVelocity, bounceDamping)

edgeTrace(ball, hexagon, angularVelocity, bounceDamping) ==
    edgeLoop(<<ball>>, getHexagonEdges(hexagon), hexagon, angularVelocity,
             bounceDamping)

\* ball.position += (toCenter / distance) * 5
moveToCenter(ball, toCenterX, toCenterY, distance) ==
    [ball EXCEPT !.position.x = NAdd(@, NMul(NDiv(toCenterX, distance), R(5))),
                 !.position.y = NAdd(@, NMul(NDiv(toCenterY, distance), R(5)))]

nudge(ball, toCenterX, toCenterY) ==
    LET distance == MathSqrtSumSq(toCenterX, toCenterY)
    IN  IF ~RootIsZero(distance)
        THEN moveToCenter(ball, toCenterX, toCenterY, RootValue(distance))
        ELSE ball

\* The nudge of 5 toward the center of a ball left outside the hexagon.
containBall(ball, hexagon) ==
    IF ~isPointInHexagon(ball.position, hexagon)
    THEN nudge(ball, NSub(hexagon.center.x, ball.position.x),
               NSub(hexagon.center.y, ball.position.y))
    ELSE ball

\* The stages of handleCollisions, as a record: the ball before and after
\* each edge, and the ball after the containment.
handleRecord(edges, hexagon) ==
    [edges |-> edges, hexagon |-> hexagon,
     contained |-> containBall(edges[7], hexagon)]

handleTrace(ball, hexagon, angularVelocity, bounceDamping) ==
    handleRecord(edgeTrace(ball, hexagon, angularVelocity, bounceDamping),
                 hexagon)

handleCollisions(ball, hexagon, angularVelocity, bounceDamping) ==
    containBall(edgeTrace(ball, hexagon, angularVelocity, bounceDamping)[7],
                hexagon)

\* A trail that is never shortened.
dropNothing(trail) == trail

dropOldest(trail) ==
    IF Len(trail) > maxTrailLength THEN Tail(trail) ELSE trail

updateTrail(trail, position, show) ==
    IF ~show THEN trail ELSE dropOldest(Append(trail, position))

\* A deltaTime without the limit of 0.033.
frameDeltaTimeUnclamped(currentTime, lastTime) ==
    Frac(currentTime - lastTime, 1000)

\* deltaTime of a frame at currentTime.
frameDeltaTime(currentTime, lastTime) ==
    NMin(Frac(currentTime - lastTime, 1000), MaxDeltaTime)

\* A test that lets a deltaTime of 0 through.
stepRunsAtZero(paused, dt) == ~paused /\ NSign(dt) >= 0

\* A test that does not look at isPaused.
stepRunsPaused(paused, dt) == NSign(dt) > 0

\* Whether the frame runs the physics step.
stepRuns(paused, dt) == ~paused /\ NSign(dt) > 0

\* A rotation by rotationSpeed, whatever deltaTime is.
rotateHexagonBySpeed(hexagon, speed, dt) ==
    [hexagon EXCEPT !.rotation = NAdd(@, speed)]

rotateHexagon(hexagon, speed, dt) ==
    [hexagon EXCEPT !.rotation = NAdd(@, NMul(speed, dt))]

\* The ball after drag, gravity and the position update, in this order.
moveBallDragFirst(ball, params, dt) ==
    updateBallPosition(
        applyGravity(applyAirFriction(ball, params.airFriction, dt),
                     params.gravity, dt),
        dt)

\* The ball after gravity, drag and the position update.
moveBall(ball, params, dt) ==
    updateBallPosition(
        applyAirFriction(applyGravity(ball, params.gravity, dt),
                         params.airFriction, dt),
        dt)

\* The stages of one physics step, as a record.
stepRecord(dt, before, rotated, moved, edges, contained, minVelocity) ==
    [dt |-> dt, before |-> before, hexagon |-> rotated, moved |-> moved,
     edges |-> edges, contained |-> contained,
     ball |-> clampMinVelocity(contained, minVelocity)]

collideStep(dt, before, rotated, moved, edges, minVelocity) ==
    stepRecord(dt, before, rotated, moved, edges,
               containBall(edges[7], rotated), minVelocity)

moveStep(dt, before, rotated, moved, speed, params) ==
    collideStep(dt, before, rotated, moved,
                edgeTrace(moved, rotated, speed, params.bounceDamping),
                params.minVelocity)

\* The body of "if (!isPaused && deltaTime > 0)" up to updateTrail.
physicsStep(ball, hexagon, params, speed, dt) ==
    moveStep(dt, ball, rotateHexagon(hexagon, speed, dt),
             moveBall(ball, params, dt), speed, params)

\* requestAnimationFrame: a handle no pending callback has.
freshHandle(pending) ==
    CHOOSE h \in 1..(Cardinality(pending) + 1) : \A f \in pending : f.id # h

\* The callback gameLoop as useCallback builds it from the state it closes over.
gameLoopOf(id, paused, show, params, speed) ==
    [id |-> id, isPaused |-> paused, showTrail |-> show,
     physicsParams |-> params, rotationSpeed |-> speed]

\* A cleanup that cancels nothing.
cancelNothing(pending, handle) == pending

\* The effect's cleanup: cancelAnimationFrame(animationRef.current).
cancelPending(pending, handle) ==
    IF handle # 0 THEN {f \in pending : f.id # handle} ELSE pending

(***************************************************************************)
(* The inputs of the component: what the browser and the user supply.      *)
(* Times are in milliseconds.                                              *)
(***************************************************************************)
\* No time stamp beyond MaxTime and no more than MaxSteps physics steps.
MaxTime == 40

MaxSteps == 2

\* currentTime - lastTimeRef.current of a frame: a time stamp before the
\* stored one, an equal one, a usual one, a late one.
FrameDeltas == {-20, 0, 20, 40}

\* performance.now() - lastTimeRef.current when the effect runs.
EffectDelays == {0, 20}

\* Slider settings (gravity 0..1000, airFriction 0..0.1, bounceDamping
\* 0.5..1, rotationSpeed -2..2).
GravityInputs == {R(500)}

AirFrictionInputs == {R(0)}

BounceDampingInputs == {Frac(17, 20)}

RotationSpeedInputs == {R(0), Frac(1, 2)}

\* A click's canvas coordinates and the velocity drawn for it,
\* (Math.random() - 0.5) * 400 in each component: at the center and slower
\* than minVelocity, over the lower edge and moving into it, above the hexagon.
ClickInputs ==
    { [position |-> Vec(R(400), R(300)), velocity |-> Vec(R(0), R(30))],
      [position |-> Vec(R(400), R(465)), velocity |-> Vec(R(0), R(100))],
      [position |-> Vec(R(400), R(50)), velocity |-> Vec(R(0), R(0))] }

\* Math.random() * 400 - 200 and Math.random() * 200 - 100.
ResetVelocities == {Vec(R(-200), R(0))}

(***************************************************************************)
(* The mounted component: the state after the first render and its effect. *)
(* The drag slider stands at 0 instead of 0.02: the factors                *)
(* 1 - airFriction * deltaTime of successive frames multiply to numbers    *)
(* beyond TLC's integers.  Drag is part of the single step of CallSpec.     *)
(***************************************************************************)
InitComponent ==
    /\ ballRef = InitialBall
    /\ hexagonRef = InitialHexagon
    /\ trailRef = <<>>
    /\ lastTimeRef = 0
    /\ isPaused = FALSE
    /\ showTrail = TRUE
    /\ physicsParams = [InitialParams EXCEPT !.airFriction = Zero]
    /\ rotationSpeed = Frac(1, 2)
    /\ animationRef = 1
    /\ pendingFrames =
           {gameLoopOf(1, FALSE, TRUE,
                       [InitialParams EXCEPT !.airFriction = Zero], Frac(1, 2))}
    /\ lastFrame = NoFrame
    /\ steps = 0

Init == InitComponent /\ call = NoCall /\ ret = NoCall

\* requestAnimationFrame(gameLoop) with the pending callbacks given.
request(pending, callback) ==
    /\ pendingFrames' = pending \cup {[callback EXCEPT !.id = freshHandle(pending)]}
    /\ animationRef' = freshHandle(pending)

\* The effect of [gameLoop]: the cleanup of the previous run, then
\* lastTimeRef.current = performance.now() and a request for the new gameLoop.
runEffect(paused, show, params, speed, now) ==
    /\ request(cancelPending(pendingFrames, animationRef),
               gameLoopOf(0, paused, show, params, speed))
    /\ lastTimeRef' = now

\* A state change of the component: the render builds a new gameLoop and the
\* effect runs again.
Rerender(paused, show, params, speed, delay) ==
    /\ lastTimeRef + delay <= MaxTime
    /\ isPaused' = paused
    /\ showTrail' = show
    /\ physicsParams' = params
    /\ rotationSpeed' = speed
    /\ runEffect(paused, show, params, speed, lastTimeRef + delay)
    /\ lastFrame' = NoFrame
    /\ UNCHANGED <<ballRef, hexagonRef, trailRef, steps, call, ret>>

\* The body of "if (!isPaused && deltaTime > 0)" with the step computed.
runStep(f, step) ==
    /\ steps < MaxSteps
    /\ ballRef' = step.ball
    /\ hexagonRef' = step.hexagon
    /\ trailRef' = updateTrail(trailRef, step.ball.position, f.showTrail)
    /\ steps' = steps + 1

\* gameLoop(currentTime), the callback f, with deltaTime computed.
gameLoop(f, currentTime, dt) ==
    /\ lastTimeRef' = currentTime
    /\ IF stepRuns(f.isPaused, dt)
       THEN runStep(f, physicsStep(ballRef, hexagonRef, f.physicsParams,
                                   f.rotationSpeed, dt))
       ELSE UNCHANGED <<ballRef, hexagonRef, trailRef, steps>>
    /\ request(pendingFrames \ {f}, f)
    /\ lastFrame' = [kind |-> "frame", isPaused |-> f.isPaused,
                     deltaTime |-> dt, stepped |-> stepRuns(f.isPaused, dt)]
    /\ UNCHANGED <<isPaused, showTrail, physicsParams, rotationSpeed, call, ret>>

\* The browser runs the pending callback f at time stamp lastTimeRef + delta.
Frame(f, delta) ==
    /\ f \in pendingFrames
    /\ lastTimeRef + delta >= 0
    /\ lastTimeRef + delta <= MaxTime
    /\ gameLoop(f, lastTimeRef + delta,
                frameDeltaTime(lastTimeRef + delta, lastTimeRef))

TogglePause(delay) ==
    Rerender(~isPaused, showTrail, physicsParams, rotationSpeed, delay)

ToggleTrail(delay) ==
    Rerender(isPaused, ~showTrail, physicsParams, rotationSpeed, delay)

SetGravity(value, delay) ==
    Rerender(isPaused, showTrail, [physicsParams EXCEPT !.gravity = value],
             rotationSpeed, delay)

SetAirFriction(value, delay) ==
    Rerender(isPaused, showTrail, [physicsParams EXCEPT !.airFriction = value],
             rotationSpeed, delay)

SetBounceDamping(value, delay) ==
    Rerender(isPaused, showTrail,
             [physicsParams EXCEPT !.bounceDamping = value], rotationSpeed,
             delay)

\* setRotationSpeed with the value the state already has renders nothing.
SetRotationSpeed(value, delay) ==
    /\ value # rotationSpeed
    /\ Rerender(isPaused, showTrail, physicsParams, value, delay)

ResetBall(velocity) ==
    /\ ballRef' = [position |-> Vec(R(400), R(200)), velocity |-> velocity,
                   radius |-> R(10), mass |-> R(1)]
    /\ trailRef' = <<>>
    /\ lastFrame' = NoFrame
    /\ UNCHANGED <<hexagonRef, lastTimeRef, animationRef, isPaused, showTrail,
                   physicsParams, rotationSpeed, pendingFrames, steps, call, ret>>

HandleCanvasClick(click) ==
    /\ ballRef' = [ballRef EXCEPT !.position = click.position,
                                  !.velocity = click.velocity]
    /\ trailRef' = <<>>
    /\ lastFrame' = NoFrame
    /\ UNCHANGED <<hexagonRef, lastTimeRef, animationRef, isPaused, showTrail,
                   physicsParams, rotationSpeed, pendingFrames, steps, call, ret>>

Next ==
    \/ \E f \in pendingFrames, delta \in FrameDeltas : Frame(f, delta)
    \/ \E delay \in EffectDelays : TogglePause(delay)
    \/ \E delay \in EffectDelays : ToggleTrail(delay)
    \/ \E value \in GravityInputs, delay \in EffectDelays :
           SetGravity(value, delay)
    \/ \E value \in AirFrictionInputs, delay \in EffectDelays :
           SetAirFriction(value, delay)
    \/ \E value \in BounceDampingInputs, delay \in EffectDelays :
           SetBounceDamping(value, delay)
    \/ \E value \in RotationSpeedInputs, delay \in EffectDelays :
           SetRotationSpeed(value, delay)
    \/ \E velocity \in ResetVelocities : ResetBall(velocity)
    \/ \E click \in ClickInputs : HandleCanvasClick(click)

Spec == Init /\ [][Next]_vars

(***************************************************************************)
(* The library functions applied on their own, and one physics step        *)
(* applied to a ball and a hexagon given as arguments.  call holds the     *)
(* function's name and arguments, ret its result; a behaviour makes one    *)
(* call, and the component stays as mounted.                               *)
(***************************************************************************)
\* Velocities of calculateBounceVelocity.
BounceVelocities ==
    { Vec(R(0), R(0)), Vec(R(0), R(10)), Vec(R(0), R(300)), Vec(R(100), R(0)),
      Vec(R(30), R(-40)), Vec(R(-30), R(40)), Vec(Q(0, 150, 1), R(150)) }

\* Unit vectors: along the axes, a 3-4-5 direction, and the inward normals
\* of two slanted edges of the hexagon.
UnitNormals ==
    { Vec(R(1), R(0)), Vec(R(0), R(-1)), Vec(Frac(3, 5), Frac(4, 5)),
      Vec(Q(0, -1, 2), Frac(-1, 2)), Vec(Frac(1, 2), Q(0, -1, 2)) }

WallVelocities ==
    { Vec(R(0), R(0)), Vec(R(0), R(40)), Vec(R(0), R(-40)), Vec(R(-20), R(10)) }

Dampings == {Frac(1, 4), Frac(1, 2), Frac(17, 20), R(1)}

CallBounce(velocity, normal, wallVelocity, bounceDamping) ==
    /\ call = NoCall
    /\ call' = [f |-> "calculateBounceVelocity", velocity |-> velocity,
                normal |-> normal, wallVelocity |-> wallVelocity,
                bounceDamping |-> bounceDamping]
    /\ ret' = calculateBounceVelocity(velocity, normal, wallVelocity,
                                      bounceDamping)
    /\ UNCHANGED componentVars

\* Segments: two short ones along the axes, a segment of length 0, and the
\* edges 0 and 1 of the initial hexagon.
Segments ==
    { [start |-> Vec(R(0), R(0)), end |-> Vec(R(10), R(0))],
      [start |-> Vec(R(0), R(0)), end |-> Vec(R(0), R(10))],
      [start |-> Vec(R(0), R(0)), end |-> Vec(R(0), R(0))],
      getHexagonEdges(InitialHexagon)[0],
      getHexagonEdges(InitialHexagon)[1] }

\* Circle centers: around the short segments, and at the distances 10, 4 and
\* 0 from the middle of the edges 0 and 1 of the initial hexagon.
Centers ==
    { Vec(R(x), R(y)) : x \in {-3, 0, 5, 10, 14}, y \in {-4, -3, 0, 3, 4, 5} }
        \cup
    { Vec(R(400), Q(290, 100, 1)), Vec(R(400), Q(296, 100, 1)),
      Vec(R(400), Q(300, 100, 1)),
      Vec(Q(550, -5, 1), Q(295, 50, 1)), Vec(Q(550, -2, 1), Q(298, 50, 1)),
      Vec(Q(550, 0, 1), Q(300, 50, 1)) }

Radii == {R(3), R(5), R(10)}

\* The calls of circleSegmentCollision whose Math.sqrt lies in the field.
CollisionInputs ==
    { c \in [center : Centers, radius : Radii, segment : Segments] :
        RootDefined(pointToSegmentDistance(c.center, c.segment).distance) }

CallCollision(c) ==
    /\ call = NoCall
    /\ call' = [f |-> "circleSegmentCollision", center |-> c.center,
                radius |-> c.radius, segment |-> c.segment]
    /\ ret' = circleSegmentCollision(c.center, c.radius, c.segment)
    /\ UNCHANGED componentVars

\* Hexagons: two centers, three sizes, and rotations that lie at or next to
\* 0, 30, 60, -30 and 90 degrees.
Hexagons ==
    [center : {Vec(R(400), R(300)), Vec(R(0), R(0))},
     radius : {R(200), R(1), Frac(1, 2)},
     rotation : {R(0), Frac(1, 2), R(1), Frac(-1, 2), Frac(8, 5)}]

\* The point at factor * radius from the center toward vertex i.
towardVertex(hexagon, i, factor) ==
    Vec(NAdd(hexagon.center.x,
             NMul(NMul(factor, hexagon.radius),
                  MathCos(<<hexagon.rotation, i>>))),
        NAdd(hexagon.center.y,
             NMul(NMul(factor, hexagon.radius),
                  MathSin(<<hexagon.rotation, i>>))))

\* The distances from the center, in radii, of the points tested.
Factors == {R(0), Frac(9, 10), R(1), Frac(11, 10)}

CallInside(hexagon, i, factor) ==
    /\ call = NoCall
    /\ call' = [f |-> "isPointInHexagon",
                point |-> towardVertex(hexagon, i, factor),
                i |-> i, factor |-> factor, hexagon |-> hexagon]
    /\ ret' = isPointInHexagon(towardVertex(hexagon, i, factor), hexagon)
    /\ UNCHANGED componentVars

\* Balls of a step: at the distance radius from the edge 1 of the initial
\* hexagon and moving straight into it at speed 300; at the center with the
\* speeds 50, 10 and 0.
StepBalls ==
    { [InitialBall EXCEPT !.position = Vec(R(400), Q(290, 100, 1)),
                          !.velocity = Vec(R(0), R(300))],
      [InitialBall EXCEPT !.position = Vec(R(400), R(300)),
                          !.velocity = Vec(R(30), R(40))],
      [InitialBall EXCEPT !.position = Vec(R(400), R(300)),
                          !.velocity = Vec(R(0), R(10))],
      [InitialBall EXCEPT !.position = Vec(R(400), R(300)),
                          !.velocity = Vec(R(0), R(0))] }

\* At the distance radius from the slanted edge 0 and moving straight into it
\* at speed 300; at the center with the speed 10 in a 3-4-5 direction.
PlainBalls ==
    { [InitialBall EXCEPT !.position = Vec(Q(550, -5, 1), Q(295, 50, 1)),
                          !.velocity = Vec(Q(0, 150, 1), R(150))],
      [InitialBall EXCEPT !.position = Vec(R(400), R(300)),
                          !.velocity = Vec(R(6), R(8))] }

\* The initial hexagon at the rotations 0, 0.5 and 0.26; from 0.26 a step
\* with the rotation speed 0.5 turns it past the middle between 0 and 30
\* degrees.
StepHexagons ==
    { InitialHexagon, [InitialHexagon EXCEPT !.rotation = Frac(1, 2)],
      [InitialHexagon EXCEPT !.rotation = Frac(13, 50)] }

StepParams ==
    [gravity : {R(0), R(500)}, airFriction : {R(0)},
     bounceDamping : {Frac(1, 2), R(1)}, minVelocity : {R(50)}]

\* With drag, for the deltaTime 0.02 only: the factor 1 - 0.02 * 0.033 takes
\* the coordinates beyond TLC's integers.
DragParams ==
    [gravity : {R(0), R(500)}, airFriction : {Frac(1, 50)},
     bounceDamping : {Frac(1, 2), R(1)}, minVelocity : {R(50)}]

\* Without gravity and drag, which take the balls of PlainBalls to
\* coordinates whose squares lie beyond TLC's integers and to speeds outside
\* the field.
PlainParams ==
    [gravity : {R(0)}, airFriction : {R(0)},
     bounceDamping : {Frac(1, 2), R(1)}, minVelocity : {R(50)}]

StepSpeeds == {R(0), Frac(1, 2)}

StepDeltaTimes == {Frac(1, 50), MaxDeltaTime}

StepInputs ==
    [ball : StepBalls, hexagon : StepHexagons, params : StepParams,
     speed : StepSpeeds, dt : StepDeltaTimes]
        \cup
    [ball : StepBalls, hexagon : StepHexagons, params : DragParams,
     speed : StepSpeeds, dt : {Frac(1, 50)}]
        \cup
    [ball : PlainBalls, hexagon : StepHexagons, params : PlainParams,
     speed : StepSpeeds, dt : StepDeltaTimes]

CallStep(s) ==
    /\ call = NoCall
    /\ call' = [f |-> "step", ball |-> s.ball, hexagon |-> s.hexagon,
                params |-> s.params, speed |-> s.speed, dt |-> s.dt]
    /\ ret' = physicsStep(s.ball, s.hexagon, s.params, s.speed, s.dt)
    /\ UNCHANGED componentVars

\* getHexagonVertices and getHexagonEdges of one hexagon.
CallEdges(hexagon) ==
    /\ call = NoCall
    /\ call' = [f |-> "getHexagonEdges", hexagon |-> hexagon]
    /\ ret' = [vertices |-> getHexagonVertices(hexagon),
               edges |-> getHexagonEdges(hexagon)]
    /\ UNCHANGED componentVars

\* Balls of handleCollisions, for the initial hexagon: on the middle of the
\* edge 1; above the hexagon, where a click puts it; 6 inside the edge 1 and
\* 4 beyond it; 6 beyond the vertex 0 and 6 beyond the vertex 1; 4 inside
\* the slanted edge 0; and at the center.
HandleBalls ==
    { [InitialBall EXCEPT !.position = Vec(R(400), Q(300, 100, 1)),
                          !.velocity = Vec(R(0), R(300))],
      [InitialBall EXCEPT !.position = Vec(R(400), R(50)),
                          !.velocity = Vec(R(0), R(0))],
      [InitialBall EXCEPT !.position = Vec(R(400), Q(294, 100, 1)),
                          !.velocity = Vec(R(0), R(300))],
      [InitialBall EXCEPT !.position = Vec(R(400), Q(304, 100, 1)),
                          !.velocity = Vec(R(0), R(300))],
      [InitialBall EXCEPT !.position = Vec(R(606), R(300)),
                          !.velocity = Vec(R(-100), R(0))],
      [InitialBall EXCEPT !.position = Vec(R(503), Q(300, 103, 1)),
                          !.velocity = Vec(R(-100), R(0))],
      [InitialBall EXCEPT !.position = Vec(Q(550, -2, 1), Q(298, 50, 1)),
                          !.velocity = Vec(Q(0, 150, 1), R(150))],
      [InitialBall EXCEPT !.position = Vec(R(400), R(300)),
                          !.velocity = Vec(R(0), R(100))] }

HandleInputs ==
    [ball : HandleBalls, hexagon : StepHexagons, angularVelocity : StepSpeeds,
     bounceDamping : {Frac(1, 2), Frac(17, 20), R(1)}]

\* handleCollisions(ball, hexagon, angularVelocity) with the bounceDamping
\* it closes over.
CallHandle(h) ==
    /\ call = NoCall
    /\ call' = [f |-> "handleCollisions", ball |-> h.ball,
                hexagon |-> h.hexagon, angularVelocity |-> h.angularVelocity,
                bounceDamping |-> h.bounceDamping]
    /\ ret' = handleTrace(h.ball, h.hexagon, h.angularVelocity,
                          h.bounceDamping)
    /\ UNCHANGED componentVars

\* pointToSegmentDistance of the centers and segments above.
CallDistance(point, segment) ==
    /\ call = NoCall
    /\ call' = [f |-> "pointToSegmentDistance", point |-> point,
                segment |-> segment]
    /\ ret' = pointToSegmentDistance(point, segment)
    /\ UNCHANGED componentVars

\* Trails of updateTrail: empty, of one position, one short of
\* maxTrailLength and of maxTrailLength positions, all of them different.
TrailLengths == {0, 1, maxTrailLength - 1, maxTrailLength}

trailOf(n) == [k \in 1..n |-> Vec(R(400 + k), R(200))]

\* updateTrail(position) with the trail it finds in trailRef.current and the
\* showTrail it closes over.
CallUpdateTrail(n, position, show) ==
    /\ call = NoCall
    /\ call' = [f |-> "updateTrail", trail |-> trailOf(n),
                position |-> position, show |-> show]
    /\ ret' = updateTrail(trailOf(n), position, show)
    /\ UNCHANGED componentVars

CallNext ==
    \/ \E velocity \in BounceVelocities, normal \in UnitNormals,
          wallVelocity \in WallVelocities, bounceDamping \in Dampings :
           CallBounce(velocity, normal, wallVelocity, bounceDamping)
    \/ \E c \in CollisionInputs : CallCollision(c)
    \/ \E point \in Centers, segment \in Segments :
           CallDistance(point, segment)
    \/ \E hexagon \in Hexagons : CallEdges(hexagon)
    \/ \E n \in TrailLengths, position \in Centers, show \in BOOLEAN :
           CallUpdateTrail(n, position, show)
    \/ \E hexagon \in Hexagons, i \in 0..5, factor \in Factors :
           CallInside(hexagon, i, factor)
    \/ \E s \in StepInputs : CallStep(s)
    \/ \E h \in HandleInputs : CallHandle(h)

CallSpec == Init /\ [][CallNext]_vars

(***************************************************************************)
(* Properties of calculateBounceVelocity (CallSpec)                        *)
(***************************************************************************)
ZeroVector == Vec(Zero, Zero)

BounceCalled == call.f = "calculateBounceVelocity"

\* dot(v, n) of a call of calculateBounceVelocity.
incomingSpeed == dotProduct(call.velocity, call.normal)

\* dot(v - wallVelocity, n) of a call of calculateBounceVelocity.
relativeSpeed ==
    dotProduct(Vec(NSub(call.velocity.x, call.wallVelocity.x),
                   NSub(call.velocity.y, call.wallVelocity.y)),
               call.normal)

\* The normal turned by a quarter: the direction along the wall.
tangentOf(normal) == Vec(NNeg(normal.y), normal.x)

\* C1 as stated: calculateBounceVelocity returns the velocity v unchanged
\* whenever dot(v, n) >= 0, for every wall velocity and every damping.
C1_UnchangedWhenSeparating ==
    BounceCalled /\ NSign(incomingSpeed) >= 0 => ret = call.velocity

\* C1, amended: calculateBounceVelocity returns the velocity v unchanged
\* whenever the velocity relative to the wall separates, dot(v - w, n) > 0,
\* and, for a wall at rest, whenever dot(v, n) >= 0 (the normal speed 0
\* included).
C1_UnchangedWhenRelativelySeparating ==
    BounceCalled =>
        /\ NSign(relativeSpeed) > 0 => ret = call.velocity
        /\ call.wallVelocity = ZeroVector /\ NSign(incomingSpeed) >= 0
               => ret = call.velocity

\* A ball that moves toward a wall moving away faster is left as it is.
C1_Witness ==
    /\ BounceCalled
    /\ call.wallVelocity # ZeroVector
    /\ NSign(incomingSpeed) < 0
    /\ NSign(relativeSpeed) > 0
    /\ ret = call.velocity

\* The collision of edge i - 1 in the loop of a step: the one the ball
\* step.edges[i] met.
edgeHit(step, i) ==
    circleSegmentCollision(step.edges[i].position, step.edges[i].radius,
                           getHexagonEdges(step.hexagon)[i - 1])

\* The response to a hit of edge i - 1 that the ball moved into negates the
\* velocity's component along the contact normal.
hitFlips(step, i, hit) ==
    hit.collided /\ NSign(dotProduct(step.edges[i].velocity, hit.normal)) < 0
        => dotProduct(step.edges[i + 1].velocity, hit.normal)
               = NNeg(dotProduct(step.edges[i].velocity, hit.normal))

\* C2: with a wall at rest and damping 1, calculateBounceVelocity turns a
\* velocity v with dot(v, n) < 0 into v' with dot(v', n) = -dot(v, n) and the
\* component along the wall unchanged; in a step with rotation speed 0 and
\* bounceDamping 1 the hit of an edge negates the normal component.
C2_ElasticReflection ==
    /\ BounceCalled /\ call.wallVelocity = ZeroVector
           /\ call.bounceDamping = One /\ NSign(incomingSpeed) < 0
           => /\ dotProduct(ret, call.normal) = NNeg(incomingSpeed)
              /\ dotProduct(ret, tangentOf(call.normal))
                     = dotProduct(call.velocity, tangentOf(call.normal))
    /\ call.f = "step" /\ call.speed = Zero /\ call.params.bounceDamping = One
           => \A i \in 1..6 : hitFlips(ret, i, edgeHit(ret, i))

\* A step with rotation speed 0 and bounceDamping 1 in which the ball, moving
\* at speed 300 into the slanted edge 0, hits it and leaves with the normal
\* component negated.
C2_Witness ==
    /\ call.f = "step"
    /\ call.speed = Zero
    /\ call.params.bounceDamping = One
    /\ call.ball.velocity = Vec(Q(0, 150, 1), R(150))
    /\ edgeHit(ret, 1).collided
    /\ NSign(dotProduct(ret.edges[1].velocity, edgeHit(ret, 1).normal)) < 0
    /\ ret.edges[2].velocity = Vec(Q(0, -150, 1), R(-150))

\* C3: for a damping d with 0 < d < 1 and a wall at rest,
\* calculateBounceVelocity turns a velocity v with dot(v, n) < 0 into v' with
\* |dot(v', n)| < |dot(v, n)|.
C3_BounceLosesNormalSpeed ==
    BounceCalled /\ call.wallVelocity = ZeroVector
        /\ NSign(call.bounceDamping) > 0 /\ NLt(call.bounceDamping, One)
        /\ NSign(incomingSpeed) < 0
        => NLt(NAbs(dotProduct(ret, call.normal)), NAbs(incomingSpeed))

\* A bounce with damping 0.85 off a wall at rest that keeps a part of its
\* normal speed.
C3_Witness ==
    /\ BounceCalled
    /\ call.wallVelocity = ZeroVector
    /\ call.bounceDamping = Frac(17, 20)
    /\ NSign(incomingSpeed) < 0
    /\ NSign(dotProduct(ret, call.normal)) > 0
    /\ NLt(dotProduct(ret, call.normal), NAbs(incomingSpeed))

(***************************************************************************)
(* Properties of circleSegmentCollision (CallSpec)                         *)
(***************************************************************************)
CollisionCalled == call.f = "circleSegmentCollision"

\* The closest point of the segment and the distance to it, of a call of
\* circleSegmentCollision.
nearestOfCall == pointToSegmentDistance(call.center, call.segment)

\* center - closestPoint of a call of circleSegmentCollision.
fromClosestPoint ==
    Vec(NSub(call.center.x, nearestOfCall.closestPoint.x),
        NSub(call.center.y, nearestOfCall.closestPoint.y))

\* C4: circleSegmentCollision reports a collision exactly when the distance
\* from the center to the closest point of the segment is less than the
\* radius; at a distance equal to the radius the result is collided = false
\* and nothing else.
C4_CollidedIffCloserThanRadius ==
    CollisionCalled =>
        /\ ret.collided <=>
               NLt(RootSq(nearestOfCall.distance), NSq(call.radius))
        /\ RootSq(nearestOfCall.distance) = NSq(call.radius)
               => ret = [collided |-> FALSE]

\* A circle that touches the edge 0 of the hexagon: no collision.
C4_Witness ==
    /\ CollisionCalled
    /\ call.segment = getHexagonEdges(InitialHexagon)[0]
    /\ RootSq(nearestOfCall.distance) = NSq(call.radius)
    /\ ret = [collided |-> FALSE]

\* The vector normal has length 1 and the direction of center - closestPoint.
unitFromClosestPoint(normal) ==
    /\ dotProduct(normal, normal) = One
    /\ dotProduct(normal, tangentOf(fromClosestPoint)) = Zero
    /\ NSign(dotProduct(normal, fromClosestPoint)) > 0

\* C6 as stated: whenever circleSegmentCollision reports a collision, its
\* normal has length 1 and points from the closest point of the segment to
\* the center.
C6_NormalIsUnit ==
    CollisionCalled /\ ret.collided => unitFromClosestPoint(ret.normal)

\* C6, amended: whenever circleSegmentCollision reports a collision and the
\* center is not the closest point of the segment itself, its normal has
\* length 1 and points from the closest point to the center; with the center
\* on the segment the collision is reported with the normal (0, 0).
C6_NormalIsUnitOffTheSegment ==
    CollisionCalled /\ ret.collided =>
        IF fromClosestPoint = ZeroVector
        THEN ret.normal = ZeroVector
        ELSE unitFromClosestPoint(ret.normal)

\* A collision with the slanted edge 0 of the hexagon, the center off the
\* edge.
C6_Witness ==
    /\ CollisionCalled
    /\ ret.collided
    /\ call.segment = getHexagonEdges(InitialHexagon)[0]
    /\ fromClosestPoint # ZeroVector
    /\ ret.normal = Vec(Q(0, -1, 2), Frac(-1, 2))

(***************************************************************************)
(* Properties of isPointInHexagon (CallSpec)                               *)
(***************************************************************************)
InsideCalled == call.f = "isPointInHexagon"

\* C10: isPointInHexagon is true of the center of a hexagon with a positive
\* radius, whatever its rotation, and false of the point at 1.1 * radius from
\* the center in the direction of any of the six vertices.
C10_CenterInsideAndBeyondVertexOutside ==
    InsideCalled /\ NSign(call.hexagon.radius) > 0 =>
        /\ call.point = call.hexagon.center => ret = TRUE
        /\ \A i \in 0..5 :
               call.point = towardVertex(call.hexagon, i, Frac(11, 10))
                   => ret = FALSE

\* The point beyond vertex 3 of a rotated hexagon of radius 1/2 is outside.
C10_Witness ==
    /\ InsideCalled
    /\ call.hexagon.rotation = Frac(1, 2)
    /\ call.hexagon.radius = Frac(1, 2)
    /\ call.point = towardVertex(call.hexagon, 3, Frac(11, 10))
    /\ call.point # call.hexagon.center
    /\ ret = FALSE

(***************************************************************************)
(* Properties of the animation loop (Spec)                                 *)
(***************************************************************************)
\* The event just taken was a frame.
FrameRan == lastFrame.kind = "frame"

\* The ball overlaps edge i of the hexagon.
overlapsEdge(i) ==
    circleSegmentCollision(ballRef.position, ballRef.radius,
                           getHexagonEdges(hexagonRef)[i]).collided

\* C5: a frame whose deltaTime is 0 leaves ball.position, ball.velocity and
\* hexagon.rotation as they were, whatever the ball, the hexagon and the
\* parameters are.
C5_ZeroDeltaTimeChangesNothing ==
    [][lastFrame'.kind = "frame" /\ lastFrame'.deltaTime = Zero
           => /\ ballRef'.position = ballRef.position
              /\ ballRef'.velocity = ballRef.velocity
              /\ hexagonRef'.rotation = hexagonRef.rotation]_vars

\* A frame with deltaTime 0, not paused, of a ball that overlaps the lower
\* edge and moves into it.
C5_Witness ==
    /\ FrameRan
    /\ lastFrame.deltaTime = Zero
    /\ ~lastFrame.isPaused
    /\ overlapsEdge(1)
    /\ ballRef.velocity = Vec(R(0), R(100))

\* C7: ball.radius and ball.mass stay 10 and 1 and hexagon.center and
\* hexagon.radius stay as constructed, through frames, resets and clicks; a
\* frame does not write physicsParams, and the physics step changes
\* hexagon.rotation by exactly rotationSpeed * deltaTime.
C7_OnlyRotationChanges ==
    /\ [](/\ ballRef.radius = R(10)
          /\ ballRef.mass = R(1)
          /\ hexagonRef.center = Vec(R(400), R(300))
          /\ hexagonRef.radius = R(200))
    /\ [][lastFrame'.kind = "frame"
              => /\ physicsParams' = physicsParams
                 /\ hexagonRef'.rotation =
                        IF lastFrame'.stepped
                        THEN NAdd(hexagonRef.rotation,
                                  NMul(rotationSpeed, lastFrame'.deltaTime))
                        ELSE hexagonRef.rotation]_vars

\* The second physics step, after a click, with the hexagon turned by both.
C7_Witness ==
    /\ FrameRan
    /\ lastFrame.stepped
    /\ steps = 2
    /\ ballRef.position.x = R(400)
    /\ hexagonRef.rotation = Frac(53, 2000)

\* C8: a frame runs the physics step once when the simulation is not paused
\* and its deltaTime is > 0, and not at all otherwise; a frame of the paused
\* simulation leaves the ball, the hexagon's rotation and the trail as they
\* were.
C8_StepOnlyWhenRunning ==
    [][lastFrame'.kind = "frame"
           => /\ steps' = IF ~isPaused /\ NSign(lastFrame'.deltaTime) > 0
                          THEN steps + 1
                          ELSE steps
              /\ steps' = steps + 1 <=> lastFrame'.stepped
              /\ steps' = steps \/ isPaused
                     => /\ ballRef' = ballRef
                        /\ hexagonRef' = hexagonRef
                        /\ trailRef' = trailRef]_vars

\* A frame of the paused simulation with a deltaTime > 0, after a physics
\* step has been run.
C8_Witness ==
    /\ FrameRan
    /\ isPaused
    /\ NSign(lastFrame.deltaTime) > 0
    /\ ~lastFrame.stepped
    /\ steps = 1
    /\ Len(trailRef) = 1

\* C9: every physics step that a frame runs has 0 < deltaTime <= 0.033,
\* whatever the time stamps of the frames and of the effect's restarts are.
C9_StepDeltaTimeBounded ==
    FrameRan /\ lastFrame.stepped
        => /\ NSign(lastFrame.deltaTime) > 0
           /\ NLe(lastFrame.deltaTime, Frac(33, 1000))

\* A physics step after a gap of 40 ms, run with deltaTime 0.033.
C9_Witness ==
    /\ FrameRan
    /\ lastFrame.stepped
    /\ lastFrame.deltaTime = Frac(33, 1000)
    /\ lastTimeRef = 40

(***************************************************************************)
(* Properties of getHexagonVertices and getHexagonEdges (CallSpec)         *)
(***************************************************************************)
EdgesCalled == call.f = "getHexagonEdges"

\* The edges form one ring over the vertices: edge i runs from vertex i to
\* vertex (i + 1) mod 6 and ends where edge (i + 1) mod 6 starts.
closedRing(vertices, edges) ==
    /\ DOMAIN vertices = 0..5
    /\ DOMAIN edges = 0..5
    /\ \A i \in 0..5 :
           /\ edges[i].start = vertices[i]
           /\ edges[i].end = vertices[(i + 1) % 6]
           /\ edges[i].end = edges[(i + 1) % 6].start

\* C11: getHexagonVertices returns exactly 6 vertices, indices 0..5, and
\* getHexagonEdges exactly 6 segments, edge i from vertex i to vertex
\* (i + 1) mod 6, so that the end of edge i is the start of edge (i + 1) mod 6;
\* the edges a physics step meets are these, in this order.
C11_EdgesFormClosedRing ==
    /\ EdgesCalled => closedRing(ret.vertices, ret.edges)
    /\ call.f = "step" =>
           closedRing(getHexagonVertices(ret.hexagon),
                      getHexagonEdges(ret.hexagon))

\* The six distinct edges of the hexagon turned by half a radian: edge 5
\* runs from vertex 5 to vertex 0.
C11_Witness ==
    /\ EdgesCalled
    /\ call.hexagon = [InitialHexagon EXCEPT !.rotation = Frac(1, 2)]
    /\ ret.edges[5].end = ret.vertices[0]
    /\ ret.edges[5].start = ret.vertices[5]
    /\ ret.vertices[0] # ret.vertices[1]
    /\ Cardinality({ret.edges[i] : i \in 0..5}) = 6

(***************************************************************************)
(* Properties of handleCollisions (CallSpec)                               *)
(***************************************************************************)
HandleCalled == call.f = "handleCollisions"

\* The response to a collision of edge i - 1 with the normal (0, 0) leaves
\* the ball's velocity and position as they were.
zeroNormalSkipped(step, i, hit) ==
    hit.collided /\ hit.normal = ZeroVector
        => /\ step.edges[i + 1].velocity = step.edges[i].velocity
           /\ step.edges[i + 1].position = step.edges[i].position

\* C12 as stated: when an edge's collision has the contact normal (0, 0),
\* handleCollisions leaves the ball's velocity and position as they were
\* before that edge, for every angular velocity and every bounceDamping.
C12_ZeroNormalNoResponse ==
    HandleCalled =>
        \A i \in 1..6 : zeroNormalSkipped(ret, i, edgeHit(ret, i))

\* C13 as stated: after the six edge responses and the containment of
\* handleCollisions the ball's center is inside the hexagon, wherever the
\* ball was when handleCollisions started.
C13_InsideAfterContainment ==
    HandleCalled \/ call.f = "step" =>
        isPointInHexagon(ret.contained.position, ret.hexagon)

\* The edge i - 1 of the hexagon of a step.
edgeOf(step, i) == getHexagonEdges(step.hexagon)[i - 1]

\* The ball at position, of the radius given, is at the distance radius from
\* closestPoint, which is the point of the edge closest to it, and the edge
\* reports no collision with it.
restsOnEdge(position, radius, edge, closestPoint) ==
    /\ pointToSegmentDistance(position, edge).closestPoint = closestPoint
    /\ RootSq(pointToSegmentDistance(position, edge).distance) = NSq(radius)
    /\ ~circleSegmentCollision(position, radius, edge).collided

\* The response to a hit of edge i - 1 with a normal other than (0, 0) moves
\* the ball along the normal by depth = radius - distance, 0 < depth <=
\* radius, to where it rests on the edge.
pushedOut(step, i, hit) ==
    hit.collided /\ hit.normal # ZeroVector
        => /\ NSign(hit.depth) > 0
           /\ NLe(hit.depth, step.edges[i].radius)
           /\ NAdd(hit.depth,
                   RootValue(pointToSegmentDistance(step.edges[i].position,
                                                    edgeOf(step, i)).distance))
                  = step.edges[i].radius
           /\ step.edges[i + 1].position
                  = Vec(NAdd(step.edges[i].position.x,
                             NMul(hit.normal.x, hit.depth)),
                        NAdd(step.edges[i].position.y,
                             NMul(hit.normal.y, hit.depth)))
           /\ restsOnEdge(step.edges[i + 1].position, step.edges[i].radius,
                          edgeOf(step, i), hit.contactPoint)

\* C14: on a hit with a normal other than (0, 0) the ball is moved along the
\* contact normal by depth = radius - distance, with 0 < depth <= radius;
\* right after the response the ball's center is at the distance radius from
\* the edge's closest point and the edge reports no collision.
C14_PushedOutByDepth ==
    HandleCalled \/ call.f = "step" =>
        \A i \in 1..6 : pushedOut(ret, i, edgeHit(ret, i))

\* The ball 6 inside the edge 1 is moved up by the depth 4.
C14_Witness ==
    /\ HandleCalled
    /\ call.ball.position = Vec(R(400), Q(294, 100, 1))
    /\ call.hexagon = InitialHexagon
    /\ edgeHit(ret, 2).collided
    /\ edgeHit(ret, 2).depth = R(4)
    /\ edgeHit(ret, 2).normal = Vec(R(0), R(-1))
    /\ ret.edges[3].position = Vec(R(400), Q(290, 100, 1))

(***************************************************************************)
(* Properties of clampMinVelocity and of the order of a step (CallSpec)    *)
(***************************************************************************)
StepCalled == call.f = "step"

\* The vector after is the vector before times a positive factor.
sameDirection(before, after) ==
    /\ NSub(NMul(before.x, after.y), NMul(before.y, after.x)) = Zero
    /\ NSign(dotProduct(before, after)) > 0

\* clampMinVelocity took the velocity before, of the speed given, to the
\* velocity after.
clamped(before, after, speed, minVelocity) ==
    /\ IF ~RootIsZero(speed) /\ RootLt(speed, minVelocity)
       THEN /\ RootValue(vectorLength(after)) = minVelocity
            /\ sameDirection(before, after)
       ELSE after = before
    /\ RootIsZero(vectorLength(after))
           \/ RootGe(vectorLength(after), minVelocity)

\* C15: clampMinVelocity scales a velocity of a speed between 0 and
\* minVelocity by a positive factor to the speed minVelocity and leaves any
\* other velocity, the velocity (0, 0) included, as it is; the ball's speed
\* after a step is 0 or at least minVelocity.
C15_SpeedFloor ==
    StepCalled =>
        /\ clamped(ret.contained.velocity, ret.ball.velocity,
                   vectorLength(ret.contained.velocity),
                   call.params.minVelocity)
        /\ ret.ball = [ret.contained EXCEPT !.velocity = ret.ball.velocity]

\* A step without gravity of the ball with the velocity (0, 10): it leaves
\* with the velocity (0, 50).
C15_Witness ==
    /\ StepCalled
    /\ ret.contained.velocity = Vec(R(0), R(10))
    /\ ret.ball.velocity = Vec(R(0), R(50))
    /\ call.params.minVelocity = R(50)

\* The velocity after gravity and then drag, and the position it leads to.
integrated(ball, params, dt) ==
    /\ ball.velocity =
           Vec(NMul(call.ball.velocity.x,
                    NSub(One, NMul(params.airFriction, dt))),
               NMul(NAdd(call.ball.velocity.y, NMul(params.gravity, dt)),
                    NSub(One, NMul(params.airFriction, dt))))
    /\ ball.position =
           Vec(NAdd(call.ball.position.x, NMul(ball.velocity.x, dt)),
               NAdd(call.ball.position.y, NMul(ball.velocity.y, dt)))
    /\ ball.radius = call.ball.radius
    /\ ball.mass = call.ball.mass

\* The loop over the edges starts from the ball moved and meets the edges
\* 0..5 of the hexagon rotated, each with the ball its predecessor left.
edgesInOrder(step, moved, rotated) ==
    /\ Len(step.edges) = 7
    /\ step.edges[1] = moved
    /\ \A i \in 1..6 :
           step.edges[i + 1] =
               edgeResponse(step.edges[i], getHexagonEdges(rotated)[i - 1],
                            rotated, call.speed, call.params.bounceDamping)

\* No edge of the step is hit and the ball moved is inside the hexagon.
freeFlight(step) ==
    /\ \A i \in 1..6 : ~edgeHit(step, i).collided
    /\ isPointInHexagon(step.moved.position, step.hexagon)

\* C16: a step rotates the hexagon, applies gravity, then drag, then moves
\* the ball, then meets the edges 0..5 of the rotated hexagon with the moved
\* ball, then contains the ball, then applies the speed floor; with no edge
\* hit and the ball inside, the ball before the floor has the velocity
\* (vx * (1 - f * dt), (vy + g * dt) * (1 - f * dt)) and the position
\* position + velocity' * dt, and the rotation is rotation + w * dt.
C16_StepOrder ==
    StepCalled =>
        /\ ret.hexagon =
               [call.hexagon EXCEPT !.rotation =
                    NAdd(call.hexagon.rotation, NMul(call.speed, call.dt))]
        /\ integrated(ret.moved, call.params, call.dt)
        /\ edgesInOrder(ret, ret.moved, ret.hexagon)
        /\ ret.contained = containBall(ret.edges[7], ret.hexagon)
        /\ ret.ball = clampMinVelocity(ret.contained, call.params.minVelocity)
        /\ freeFlight(ret) => ret.contained = ret.moved

\* A step of 0.02 with gravity 500, drag 0.02 and rotation speed 0.5 of the
\* ball at the center with the velocity (30, 40): no edge is hit, and the
\* ball leaves with the velocity (29.988, 49.98).
C16_Witness ==
    /\ StepCalled
    /\ call.params.gravity = R(500)
    /\ call.params.airFriction = Frac(1, 50)
    /\ call.speed = Frac(1, 2)
    /\ call.hexagon = InitialHexagon
    /\ call.ball.velocity = Vec(R(30), R(40))
    /\ freeFlight(ret)
    /\ ret.hexagon.rotation = Frac(1, 100)
    /\ ret.contained.velocity = Vec(Frac(7497, 250), Frac(2499, 50))
    /\ ret.contained.position.y = NAdd(R(300), Frac(2499, 2500))

(***************************************************************************)
(* Properties of pointToSegmentDistance (CallSpec)                         *)
(***************************************************************************)
DistanceCalled == call.f = "pointToSegmentDistance"

\* The vector from a to b, and the square of the distance between them.
fromTo(a, b) == Vec(NSub(b.x, a.x), NSub(b.y, a.y))

distanceSquared(a, b) == dotProduct(fromTo(a, b), fromTo(a, b))

\* start + t * along for a t in [0, 1], where offset = point - start.
withinSegment(offset, along) ==
    /\ NSub(NMul(offset.x, along.y), NMul(offset.y, along.x)) = Zero
    /\ NSign(dotProduct(offset, along)) >= 0
    /\ NLe(dotProduct(offset, along), dotProduct(along, along))
    /\ along = ZeroVector => offset = ZeroVector

\* C17: pointToSegmentDistance returns a point of the segment and its
\* distance to the point asked about, which is at most the distance to
\* either end of the segment; for a segment of length 0 it returns the start
\* and the distance to it.
C17_ClosestPointOnSegment ==
    DistanceCalled =>
        /\ withinSegment(fromTo(call.segment.start, ret.closestPoint),
                         fromTo(call.segment.start, call.segment.end))
        /\ RootSq(ret.distance) = distanceSquared(call.point, ret.closestPoint)
        /\ NLe(RootSq(ret.distance),
               distanceSquared(call.point, call.segment.start))
        /\ NLe(RootSq(ret.distance),
               distanceSquared(call.point, call.segment.end))
        /\ call.segment.start = call.segment.end
               => ret.closestPoint = call.segment.start

\* The point (14, 3) and the segment from (0, 0) to (10, 0): the closest
\* point is the end (10, 0), at the distance 5.
C17_Witness ==
    /\ DistanceCalled
    /\ call.point = Vec(R(14), R(3))
    /\ call.segment = [start |-> Vec(R(0), R(0)), end |-> Vec(R(10), R(0))]
    /\ ret.closestPoint = Vec(R(10), R(0))
    /\ RootValue(ret.distance) = R(5)

(***************************************************************************)
(* Properties of updateTrail (CallSpec)                                    *)
(***************************************************************************)
TrailCalled == call.f = "updateTrail"

\* The last n elements of a sequence, in their order.
lastOf(s, n) ==
    IF Len(s) <= n THEN s ELSE SubSeq(s, Len(s) - n + 1, Len(s))

firstHit(step, j) ==
    circleSegmentCollision(step.edges[1].position, step.edges[1].radius,
                           getHexagonEdges(step.hexagon)[j])

\* The collision hit is one at the point vertex, with a normal.
touching(hit, vertex) ==
    /\ hit.collided
    /\ hit.contactPoint = vertex
    /\ hit.normal # ZeroVector

\* The two edges that meet at the vertex k, in the order of the loop.
firstEdge(k) == IF k = 0 THEN 0 ELSE k - 1

secondEdge(k) == IF k = 0 THEN 5 ELSE k

\* When the loop over the edges starts, the ball overlaps the two edges at
\* the vertex k in that vertex, and no other edge.
vertexContact(step, k) ==
    /\ touching(firstHit(step, firstEdge(k)),
                getHexagonVertices(step.hexagon)[k])
    /\ touching(firstHit(step, secondEdge(k)),
                getHexagonVertices(step.hexagon)[k])
    /\ \A j \in 0..5 \ {firstEdge(k), secondEdge(k)} :
           ~firstHit(step, j).collided

\* Only the first of the two edges at the vertex k meets a collision and
\* changes the ball.
oneReflection(step, k) ==
    /\ edgeHit(step, firstEdge(k) + 1).collided
    /\ ~edgeHit(step, secondEdge(k) + 1).collided
    /\ \A i \in 1..6 :
           i # firstEdge(k) + 1 => step.edges[i + 1] = step.edges[i]

\* C19: a ball that overlaps the hexagon in a vertex only, with a normal
\* other than (0, 0), when the loop over the edges starts gets the response
\* of the first of the two edges of that vertex only: after the push-out the
\* second edge detects no collision.
C19_OneReflectionAtVertex ==
    HandleCalled \/ StepCalled =>
        \A k \in 0..5 : vertexContact(ret, k) => oneReflection(ret, k)

\* The ball 6 beyond the vertex 0 and moving toward it: the edge 0 turns it
\* around and puts it 10 from the vertex, and the edge 5 leaves it alone.
C19_Witness ==
    /\ HandleCalled
    /\ call.hexagon = InitialHexagon
    /\ call.bounceDamping = One
    /\ call.ball.position = Vec(R(606), R(300))
    /\ vertexContact(ret, 0)
    /\ ret.edges[2].position = Vec(R(610), R(300))
    /\ ret.edges[2].velocity = Vec(R(100), R(0))
    /\ ret.edges[7] = ret.edges[2]

(***************************************************************************)
(* The animation loop (Spec)                                               *)
(***************************************************************************)
\* C20: at any time at most one callback of gameLoop is pending, and it is
\* the one animationRef names, whatever the order of frames, pause and trail
\* toggles and slider changes: the cleanup of the effect cancels the pending
\* callback before the effect requests the new one.
C20_OnePendingFrame ==
    /\ Cardinality(pendingFrames) <= 1
    /\ \A f \in pendingFrames : f.id = animationRef

\* After a physics step and a pause: the one pending callback is the
\* gameLoop of the render that followed the pause.
C20_Witness ==
    /\ steps = 1
    /\ isPaused
    /\ lastFrame = NoFrame
    /\ pendingFrames =
           {gameLoopOf(animationRef, TRUE, showTrail, physicsParams,
                       rotationSpeed)}

=============================================================================
